---- MODULE Spec2Model ----
(***************************************************************************)
(* The volume super block of weed/storage/volume_super_block.go: the       *)
(* 8-byte header (plus optional protobuf extension) at offset 0 of a       *)
(* volume's data file, its encoder Bytes(), its decoder ReadSuperBlock(),  *)
(* and the volume methods maybeWriteSuperBlock() and readSuperBlock().     *)
(*                                                                         *)
(* Bytes are the integers 0..255 and a file is the sequence of its bytes.  *)
(* A Go pointer is a sequence of length at most one: Nil is the nil        *)
(* pointer and Ptr(x) points at x.                                         *)
(***************************************************************************)
EXTENDS Integers, Sequences, FiniteSets, TLC

\* ------------------------------------------------------------------ bounds

\* Largest ErasureCoding.data value of the extensions the small model draws.
MaxData == 1
\* Largest number of volume ids of the extensions the small model draws.
MaxIds == 1
\* The boundary model draws extensions whose serialized length lies within
\* BoundarySpan bytes of the largest length Bytes() accepts.
BoundarySpan == 2

\* --------------------------------------------------------------- constants

SuperBlockSize == 8
Version1 == 1
Version2 == 2
Version3 == 3
CurrentVersion == Version3
\* volume_super_block.go:58, the literal 256*256-2
MaxExtraSize == 256 * 256 - 2

Nil == <<>>
Ptr(x) == <<x>>
Min(a, b) == IF a < b THEN a ELSE b
Zeros(n) == IF n = 0 THEN <<>> ELSE [i \in 1..n |-> 0]

\* ------------------------------------------------------- external codecs

\* util.Uint16toBytes / util.BytesToUint16: big-endian 16-bit.
Uint16toBytes(v) == <<(v \div 256) % 256, v % 256>>
BytesToUint16(b) == b[1] * 256 + b[2]

\* ReplicaPlacement: three counts 0..2, one decimal digit each ("000, 001,
\* 002, 010, etc").
RPByte(rp) == (rp.dc * 100 + rp.rack * 10 + rp.same) % 256
ValidRPByte(b) ==
    /\ b \div 100 \in 0..2
    /\ (b \div 10) % 10 \in 0..2
    /\ b % 10 \in 0..2
\* The placement is a pointer; on an unrecognized byte there is an error and
\* no placement.
NewReplicaPlacementFromByte(b) ==
    IF ValidRPByte(b)
    THEN [err |-> "nil",
          rp |-> Ptr([dc |-> b \div 100, rack |-> (b \div 10) % 10, same |-> b % 10])]
    ELSE [err |-> "Unknown Replication Type", rp |-> Nil]

\* TTL: a count byte and a unit byte; two zero bytes are the empty TTL.
EMPTY_TTL == [count |-> 0, unit |-> 0]
TTLToBytes(t) == <<t.count, t.unit>>
LoadTTLFromBytes(b) ==
    IF b[1] = 0 /\ b[2] = 0 THEN Ptr(EMPTY_TTL) ELSE Ptr([count |-> b[1], unit |-> b[2]])

\* --------------------------------------------- the extension and protobuf

\* master_pb.SuperBlockExtra: an optional ErasureCoding message (field 1)
\* holding data (field 1, varint) and volume_ids (field 3, packed); bytes of
\* fields the schema does not know are kept in unrecognized and written back.
\* The model keeps the number of volume ids, ids; each is the id 1 and packs
\* into one byte.
EmptyExtra == [ec |-> Nil, unrecognized |-> <<>>]
ErasureCoding(d, n) == [ec |-> Ptr([data |-> d, ids |-> n]), unrecognized |-> <<>>]
Ids(n) == IF n = 0 THEN <<>> ELSE [i \in 1..n |-> 1]

RECURSIVE Varint(_)
Varint(n) == IF n < 128 THEN <<n>> ELSE <<(n % 128) + 128>> \o Varint(n \div 128)

MarshalEC(ec) ==
    (IF ec.data # 0 THEN <<8>> \o Varint(ec.data) ELSE <<>>)
    \o (IF ec.ids > 0 THEN <<26>> \o Varint(ec.ids) \o Ids(ec.ids) ELSE <<>>)

\* proto.Marshal of a SuperBlockExtra.
Marshal(extra) ==
    (IF extra.ec # Nil
     THEN LET inner == MarshalEC(extra.ec[1]) IN <<10>> \o Varint(Len(inner)) \o inner
     ELSE <<>>)
    \o extra.unrecognized

\* The serialized bytes of an Extra pointer: nothing for nil.
MarshalPtr(p) == IF p = Nil THEN <<>> ELSE Marshal(p[1])

RECURSIVE DecodeVarint(_)
DecodeVarint(b) ==
    IF b = <<>> THEN [ok |-> FALSE, value |-> 0, rest |-> <<>>]
    ELSE IF b[1] < 128 THEN [ok |-> TRUE, value |-> b[1], rest |-> Tail(b)]
    ELSE LET r == DecodeVarint(Tail(b))
         IN  [ok |-> r.ok, value |-> (b[1] - 128) + 128 * r.value, rest |-> r.rest]

Drop(b, n) == SubSeq(b, n + 1, Len(b))

\* Skip one field's value by its wire type.
SkipField(b, wire) ==
    CASE wire = 0 -> LET v == DecodeVarint(b) IN [ok |-> v.ok, rest |-> v.rest]
      [] wire = 1 -> [ok |-> Len(b) >= 8, rest |-> Drop(b, Min(8, Len(b)))]
      [] wire = 5 -> [ok |-> Len(b) >= 4, rest |-> Drop(b, Min(4, Len(b)))]
      [] wire = 2 -> LET v == DecodeVarint(b)
                     IN  IF v.ok /\ v.value <= Len(v.rest)
                         THEN [ok |-> TRUE, rest |-> Drop(v.rest, v.value)]
                         ELSE [ok |-> FALSE, rest |-> <<>>]
      [] OTHER -> [ok |-> FALSE, rest |-> <<>>]

\* Parse the fields of an ErasureCoding message.  strict: the library
\* rejects field number 0 ("illegal tag 0"); otherwise it skips it as an
\* unknown field.  Both behaviours exist among the library's releases.
RECURSIVE UnmarshalEC(_, _, _)
UnmarshalEC(b, acc, strict) ==
    IF b = <<>> THEN [ok |-> TRUE, ec |-> acc]
    ELSE LET t == DecodeVarint(b)
             field == t.value \div 8
             wire == t.value % 8
         IN  IF ~t.ok \/ (field = 0 /\ strict) THEN [ok |-> FALSE, ec |-> acc]
             ELSE IF field = 1 /\ wire = 0
             THEN LET v == DecodeVarint(t.rest)
                  IN  IF v.ok THEN UnmarshalEC(v.rest, [acc EXCEPT !.data = v.value], strict)
                      ELSE [ok |-> FALSE, ec |-> acc]
             ELSE IF field = 3 /\ wire = 2
             THEN LET v == DecodeVarint(t.rest)
                  IN  IF v.ok /\ v.value <= Len(v.rest)
                      THEN UnmarshalEC(Drop(v.rest, v.value),
                                       [acc EXCEPT !.ids = @ + v.value],
                                       strict)
                      ELSE [ok |-> FALSE, ec |-> acc]
             ELSE LET s == SkipField(t.rest, wire)
                  IN  IF s.ok THEN UnmarshalEC(s.rest, acc, strict)
                      ELSE [ok |-> FALSE, ec |-> acc]

\* proto.Unmarshal(b, extra) into the message acc.
RECURSIVE Unmarshal(_, _, _)
Unmarshal(b, acc, strict) ==
    IF b = <<>> THEN [ok |-> TRUE, extra |-> acc]
    ELSE LET t == DecodeVarint(b)
             field == t.value \div 8
             wire == t.value % 8
         IN  IF ~t.ok \/ (field = 0 /\ strict) THEN [ok |-> FALSE, extra |-> acc]
             ELSE IF field = 1 /\ wire = 2
             THEN LET v == DecodeVarint(t.rest)
                      old == IF acc.ec = Nil THEN [data |-> 0, ids |-> 0] ELSE acc.ec[1]
                  IN  IF v.ok /\ v.value <= Len(v.rest)
                      THEN LET e == UnmarshalEC(SubSeq(v.rest, 1, v.value), old, strict)
                           IN  IF e.ok
                               THEN Unmarshal(Drop(v.rest, v.value),
                                              [acc EXCEPT !.ec = Ptr(e.ec)], strict)
                               ELSE [ok |-> FALSE, extra |-> [acc EXCEPT !.ec = Ptr(e.ec)]]
                      ELSE [ok |-> FALSE, extra |-> acc]
             ELSE LET s == SkipField(t.rest, wire)
                      used == SubSeq(b, 1, Len(b) - Len(s.rest))
                  IN  IF s.ok
                      THEN Unmarshal(s.rest, [acc EXCEPT !.unrecognized = @ \o used], strict)
                      ELSE [ok |-> FALSE, extra |-> acc]

\* ------------------------------------------------------------ SuperBlock

\* The zero value of the SuperBlock struct.
ZeroSuperBlock ==
    [version |-> 0, ReplicaPlacement |-> Nil, Ttl |-> Nil, CompactRevision |-> 0,
     Extra |-> Nil, extraSize |-> 0]

BlockSize(s) ==
    IF s.version \in {Version2, Version3}
    THEN SuperBlockSize + s.extraSize
    ELSE SuperBlockSize

ExtraTooBigOffByOne(n) == n > MaxExtraSize + 1
\* The size check of Bytes().
ExtraTooBig(n) == n > MaxExtraSize

\* Bytes() dereferences ReplicaPlacement and Ttl.
Encodable(s) == s.ReplicaPlacement # Nil /\ s.Ttl # Nil

\* Bytes(): the byte sequence returned, the receiver afterwards (extraSize is
\* assigned on the way), and fatal when glog.Fatalf ended the process.
Bytes(s) ==
    LET fixed == <<s.version % 256, RPByte(s.ReplicaPlacement[1])>>
                 \o TTLToBytes(s.Ttl[1])
                 \o Uint16toBytes(s.CompactRevision)
    IN  IF s.Extra = Nil
        THEN [fatal |-> FALSE, bytes |-> fixed \o <<0, 0>>, sb |-> s]
        ELSE LET extraData == Marshal(s.Extra[1])
                 extraSize == Len(extraData)
             IN  IF ExtraTooBig(extraSize)
                 THEN [fatal |-> TRUE, bytes |-> <<>>, sb |-> s]
                 ELSE [fatal |-> FALSE,
                       bytes |-> fixed \o Uint16toBytes(extraSize % 65536) \o extraData,
                       sb |-> [s EXCEPT !.extraSize = extraSize % 65536]]


\* ---------------------------------------------------------- ReadSuperBlock

\* ReadSuperBlock(dataFile) on a file holding the bytes file.  seekOk and
\* readOk are the outcomes of Seek and Read; Read fills at most
\* len(header) bytes, returns io.EOF only when it read none, and leaves the
\* rest of the zeroed buffer alone.
ReadSuperBlock(file, seekOk, readOk, strict) ==
    IF ~seekOk THEN [err |-> "cannot seek", sb |-> ZeroSuperBlock]
    ELSE LET n == Min(SuperBlockSize, Len(file))
             header == SubSeq(file, 1, n) \o Zeros(SuperBlockSize - n)
             s1 == [ZeroSuperBlock EXCEPT !.version = header[1]]
             rp == NewReplicaPlacementFromByte(header[2])
             s2 == [s1 EXCEPT !.ReplicaPlacement = rp.rp,
                              !.Ttl = LoadTTLFromBytes(SubSeq(header, 3, 4)),
                              !.CompactRevision = BytesToUint16(SubSeq(header, 5, 6)),
                              !.extraSize = BytesToUint16(SubSeq(header, 7, 8))]
         IN  IF ~readOk \/ n = 0 THEN [err |-> "cannot read", sb |-> ZeroSuperBlock]
             ELSE IF rp.err # "nil"
             THEN [err |-> "cannot read replica type",
                   sb |-> [s1 EXCEPT !.ReplicaPlacement = rp.rp]]
             ELSE IF s2.extraSize > 0
             THEN LET extraData == Zeros(s2.extraSize)
                      u == Unmarshal(extraData, EmptyExtra, strict)
                  IN  [err |-> IF u.ok THEN "nil" ELSE "cannot read extra",
                       sb |-> [s2 EXCEPT !.Extra = Ptr(u.extra)]]
             ELSE [err |-> "nil", sb |-> s2]

\* ------------------------------------------------------------ the volume

\* os.IsPermission
IsPermission(e) == e = "EACCES"

ShouldRecreateOnAnyError(e) == e # "nil"
\* The condition that starts the recovery: e != nil && os.IsPermission(e).
ShouldRecreate(e) == e # "nil" /\ IsPermission(e)

FileIsShort(size) == size < SuperBlockSize
\* The condition that starts the write: stat.Size() == 0.
FileIsEmpty(size) == size = 0

ReadOnlyClearedOnRecreate(readOnly, e) == FALSE
\* v.readOnly after the retried write returned e.
ReadOnlyAfterRetry(readOnly, e) == IF e = "nil" THEN FALSE ELSE readOnly

\* What one call did besides changing the volume.  Of a byte sequence that
\* Bytes() returned it keeps the fixed region, head, and the length, len.
FixedRegion(bytes) == SubSeq(bytes, 1, Min(SuperBlockSize, Len(bytes)))
NoTrace ==
    [err |-> "nil", writes |-> 0, creates |-> 0, stat |-> "none", first |-> "none",
     create |-> "none", second |-> "none", seek |-> "none", read |-> "none",
     fatal |-> FALSE, head |-> <<>>, len |-> 0, blockSize |-> 0]

\* maybeWriteSuperBlock() on the volume v = [sb, disk, dataFile, readOnly],
\* disk being the bytes of the file at the data file's path.  statErr, w1,
\* createErr and w2 are what Stat, the first Write, os.Create and the second
\* Write return ("nil": success).  A failed Write writes nothing.
MaybeWrite(v, statErr, w1, createErr, w2) ==
    IF statErr # "nil"
    THEN [v |-> v, t |-> [NoTrace EXCEPT !.err = statErr, !.stat = statErr]]
    ELSE IF ~FileIsEmpty(Len(v.disk))
    THEN [v |-> v, t |-> [NoTrace EXCEPT !.stat = "nil"]]
    ELSE
    LET b1 == Bytes([v.sb EXCEPT !.version = CurrentVersion])
        t1 == [NoTrace EXCEPT !.stat = "nil", !.first = w1, !.writes = 1,
                             !.head = FixedRegion(b1.bytes), !.len = Len(b1.bytes)]
        v1 == [v EXCEPT !.sb = b1.sb]
    IN  IF w1 = "nil"
        THEN [v |-> [v1 EXCEPT !.disk = b1.bytes], t |-> t1]
        ELSE IF ShouldRecreate(w1)
        THEN IF createErr = "nil"
             THEN LET b2 == Bytes(v1.sb)
                  IN  [v |-> [v1 EXCEPT !.sb = b2.sb,
                                        !.dataFile = "recreated",
                                        !.disk = IF w2 = "nil" THEN b2.bytes ELSE <<>>,
                                        !.readOnly = ReadOnlyAfterRetry(v.readOnly, w2)],
                       t |-> [t1 EXCEPT !.err = w2, !.create = "nil", !.creates = 1,
                                        !.second = w2, !.writes = 2,
                                        !.head = FixedRegion(b2.bytes), !.len = Len(b2.bytes)]]
             ELSE [v |-> [v1 EXCEPT !.dataFile = "nil"],
                   t |-> [t1 EXCEPT !.err = createErr, !.create = createErr, !.creates = 1]]
        ELSE [v |-> v1, t |-> [t1 EXCEPT !.err = w1]]

\* ----------------------------------------------------------------- inputs

Versions == {Version1, Version2, Version3}

\* Placement, TTL and compaction revision of the headers the model draws.
HeaderSamples ==
    { [rp |-> [dc |-> 0, rack |-> 0, same |-> 0], ttl |-> EMPTY_TTL, rev |-> 5],
      [rp |-> [dc |-> 1, rack |-> 0, same |-> 2], ttl |-> [count |-> 3, unit |-> 1],
       rev |-> 258] }

MakeSuperBlock(ver, h, extra) ==
    [version |-> ver, ReplicaPlacement |-> Ptr(h.rp), Ttl |-> Ptr(h.ttl),
     CompactRevision |-> h.rev, Extra |-> extra, extraSize |-> 0]

\* The values a caller assigns to Extra.
ExtraSamples ==
    {Nil, Ptr(EmptyExtra)}
    \cup {Ptr(ErasureCoding(d, n)) : d \in 0..MaxData, n \in 0..MaxIds}

\* With no data field the serialized extension is 8 bytes longer than its
\* list of volume ids once both length prefixes take three bytes.
BoundaryIds == MaxExtraSize - 8
BoundaryExtras ==
    {Ptr(ErasureCoding(0, n)) :
        n \in (BoundaryIds - BoundarySpan)..(BoundaryIds + BoundarySpan)}

\* Data files found on disk when a volume is opened: a new file, a
\* truncated one, one with an unrecognized placement byte, headers without
\* and with an extension.
InitialFiles ==
    { <<>>,
      <<3, 0, 0>>,
      <<2, 3, 0, 0, 0, 0, 0, 0>>,
      <<2, 1, 0, 0, 0, 5, 0, 0>>,
      <<3, 0, 0, 0, 0, 5, 0, 4, 10, 2, 8, 1>>,
      <<2, 0, 0, 0, 0, 5, 0, 5, 10, 3, 26, 1, 1>> }

\* ------------------------------------------------------------------ state

VARIABLES
    SuperBlock,   \* v.SuperBlock
    dataFile,     \* v.dataFile: "open", "recreated", or "nil"
    disk,         \* the bytes of the file at the data file's path
    readOnly,     \* v.readOnly
    op,           \* the last operation
    pre,          \* the volume before the last operation
    res           \* what the last operation returned and did

vars == <<SuperBlock, dataFile, disk, readOnly, op, pre, res>>

Volume == [sb |-> SuperBlock, disk |-> disk, dataFile |-> dataFile, readOnly |-> readOnly]

Init ==
    /\ SuperBlock \in {MakeSuperBlock(ver, h, Nil) : ver \in Versions, h \in HeaderSamples}
    /\ dataFile = "open"
    /\ disk \in InitialFiles
    /\ readOnly \in BOOLEAN
    /\ op = "init"
    /\ pre = Volume
    /\ res = NoTrace

\* The process runs until glog.Fatalf ends it, and a volume whose super
\* block could not be read is not used further (the read may be retried).
Running == ~res.fatal
Loaded == ~(op = "readSuperBlock" /\ res.err # "nil")

\* A caller assigns the public field Extra.
SetExtra ==
    /\ Running
    /\ Loaded
    /\ \E e \in ExtraSamples :
        /\ e # SuperBlock.Extra
        /\ SuperBlock' = [SuperBlock EXCEPT !.Extra = e]
    /\ op' = "SetExtra"
    /\ pre' = Volume
    /\ res' = NoTrace
    /\ UNCHANGED <<dataFile, disk, readOnly>>

\* A caller calls SuperBlock.Bytes() and then BlockSize().
CallBytes ==
    /\ Running
    /\ Loaded
    /\ Encodable(SuperBlock)
    /\ LET b == Bytes(SuperBlock)
       IN  /\ SuperBlock' = b.sb
           /\ res' = [NoTrace EXCEPT !.fatal = b.fatal, !.head = FixedRegion(b.bytes),
                                     !.len = Len(b.bytes),
                                     !.blockSize = BlockSize(b.sb)]
    /\ op' = "Bytes"
    /\ pre' = Volume
    /\ UNCHANGED <<dataFile, disk, readOnly>>

\* v.maybeWriteSuperBlock().  It needs a data file (Stat's error path calls
\* Name() on it) and, on an empty file, a SuperBlock that Bytes() encodes.
maybeWriteSuperBlock ==
    /\ Running
    /\ Loaded
    /\ dataFile # "nil"
    /\ \E statErr \in {"nil", "EIO"}, w1 \in {"nil", "EACCES", "EIO"},
          createErr \in {"nil", "EACCES"}, w2 \in {"nil", "EIO"} :
        LET r == MaybeWrite(Volume, statErr, w1, createErr, w2)
        IN  /\ (statErr = "nil" /\ FileIsEmpty(Len(disk))) =>
                   (Encodable(SuperBlock)
                    /\ ~Bytes([SuperBlock EXCEPT !.version = CurrentVersion]).fatal)
            /\ SuperBlock' = r.v.sb
            /\ dataFile' = r.v.dataFile
            /\ disk' = r.v.disk
            /\ readOnly' = r.v.readOnly
            /\ res' = r.t
    /\ op' = "maybeWriteSuperBlock"
    /\ pre' = Volume

\* v.readSuperBlock(): the value ReadSuperBlock returns is assigned to
\* v.SuperBlock together with the error.  It needs a data file (the error
\* paths call Name() on it).
readSuperBlock ==
    /\ Running
    /\ dataFile # "nil"
    /\ \E seekOk \in BOOLEAN, readOk \in BOOLEAN, strict \in BOOLEAN :
        LET r == ReadSuperBlock(disk, seekOk, readOk, strict)
        IN  /\ SuperBlock' = r.sb
            /\ res' = [NoTrace EXCEPT !.err = r.err,
                                      !.seek = IF seekOk THEN "nil" ELSE "EIO",
                                      !.read = IF ~seekOk THEN "none"
                                               ELSE IF readOk THEN "nil" ELSE "EIO"]
    /\ op' = "readSuperBlock"
    /\ pre' = Volume
    /\ UNCHANGED <<dataFile, disk, readOnly>>

Next == SetExtra \/ CallBytes \/ maybeWriteSuperBlock \/ readSuperBlock

Spec == Init /\ [][Next]_vars

\* The boundary model: headers whose extension serializes to about
\* MaxExtraSize bytes, and calls of Bytes().
InitBoundary ==
    /\ SuperBlock \in {MakeSuperBlock(ver, h, e) :
                          ver \in Versions, h \in HeaderSamples, e \in BoundaryExtras}
    /\ dataFile = "open"
    /\ disk \in {<<>>, <<2, 1, 0, 0, 0, 5, 0, 0>>}
    /\ readOnly = FALSE
    /\ op = "init"
    /\ pre = Volume
    /\ res = NoTrace

NextBoundary == CallBytes

SpecBoundary == InitBoundary /\ [][NextBoundary]_vars


\* ----------------------------------------------------------------- claims

\* The headers of the round-trip claim: version 1, 2 or 3, a valid
\* placement, a TTL, a compaction revision, no extension or one within the
\* size limit.
RoundTripHeaders ==
    {MakeSuperBlock(ver, h, e) : ver \in Versions, h \in HeaderSamples, e \in ExtraSamples}

\* Two Extra pointers with the same serialized bytes count as equal.
SameHeader(a, b) ==
    /\ a.version = b.version
    /\ a.ReplicaPlacement = b.ReplicaPlacement
    /\ a.Ttl = b.Ttl
    /\ a.CompactRevision = b.CompactRevision
    /\ MarshalPtr(a.Extra) = MarshalPtr(b.Extra)

\* The file read by the last readSuperBlock held exactly Bytes(h).
HeldEncodingOf(h) == ~Bytes(h).fatal /\ pre.disk = Bytes(h).bytes

ReadWithoutIOError == op = "readSuperBlock" /\ res.seek = "nil" /\ res.read = "nil"

\* C1: round trip.  Whenever readSuperBlock ran, without I/O error, on a file
\* holding Bytes(h) for a header h of the claim, it succeeded and the
\* SuperBlock read equals h in version, ReplicaPlacement, Ttl,
\* CompactRevision and Extra, its extraSize being the serialized length of
\* h's extension.
C1_RoundTrip ==
    ReadWithoutIOError =>
        \A h \in RoundTripHeaders :
            HeldEncodingOf(h) =>
                /\ res.err = "nil"
                /\ SameHeader(SuperBlock, h)
                /\ SuperBlock.extraSize = Len(MarshalPtr(h.Extra))

\* The length the claim gives the encoding of s.
ClaimedLength(s) ==
    IF s.Extra = Nil \/ s.version = Version1
    THEN SuperBlockSize
    ELSE SuperBlockSize + Len(MarshalPtr(s.Extra))

\* C2: total length.  Whenever Bytes() returned, the sequence is 8 bytes long
\* when Extra is absent or the version is 1 and 8 plus the serialized
\* extension otherwise, and BlockSize() right after returns that length.
C2_TotalLength ==
    (op = "Bytes" /\ ~res.fatal) =>
        /\ res.len = ClaimedLength(pre.sb)
        /\ res.blockSize = res.len

\* C3: truncated header.  Whenever readSuperBlock ran on a file of fewer than
\* 8 bytes, it returned an error.
C3_TruncatedHeader ==
    (op = "readSuperBlock" /\ Len(pre.disk) < SuperBlockSize) => res.err # "nil"

PermissionRecovery ==
    /\ op = "maybeWriteSuperBlock"
    /\ res.stat = "nil"
    /\ Len(pre.disk) = 0
    /\ res.first = "EACCES"

\* C4: permission recovery.  Whenever maybeWriteSuperBlock ran on an empty
\* file and the first write failed with permission-denied: if the recreate
\* and the retried write succeeded, the call returned no error, the file
\* holds the encoded header and readOnly is false; otherwise the call
\* returned the error of the step that failed and readOnly is as before.
C4_PermissionRecovery ==
    PermissionRecovery =>
        IF res.create = "nil" /\ res.second = "nil"
        THEN /\ res.err = "nil"
             /\ disk = Bytes([pre.sb EXCEPT !.version = CurrentVersion]).bytes
             /\ readOnly = FALSE
        ELSE /\ res.err # "nil"
             /\ res.err = (IF res.create # "nil" THEN res.create ELSE res.second)
             /\ readOnly = pre.readOnly

\* C4's case: a read-only volume, its header carrying an extension, recovered
\* by recreate and retry.
C4_Witness ==
    /\ PermissionRecovery
    /\ res.create = "nil"
    /\ res.second = "nil"
    /\ pre.readOnly
    /\ ~readOnly
    /\ Len(disk) > SuperBlockSize

\* C5: no-op on an existing file.  Whenever maybeWriteSuperBlock found a file
\* of size greater than 0, it wrote nothing, recreated nothing, returned no
\* error, and left the file, the file handle, the SuperBlock and readOnly as
\* they were.
C5_NoOpOnExistingFile ==
    (op = "maybeWriteSuperBlock" /\ res.stat = "nil" /\ Len(pre.disk) > 0) =>
        /\ res.writes = 0
        /\ res.creates = 0
        /\ res.err = "nil"
        /\ disk = pre.disk
        /\ dataFile = pre.dataFile
        /\ SuperBlock = pre.sb
        /\ readOnly = pre.readOnly

\* C5's case: the call ran on a non-empty file shorter than a header while
\* the SuperBlock in memory was not of the current version.
C5_Witness ==
    /\ op = "maybeWriteSuperBlock"
    /\ res.stat = "nil"
    /\ Len(pre.disk) > 0
    /\ Len(pre.disk) < SuperBlockSize
    /\ pre.sb.version # CurrentVersion
    /\ pre.readOnly

\* C6: oversize boundary.  Whenever Bytes() ran on a header whose extension
\* serializes to n bytes: for n = 65534 it returned a sequence with 65534 in
\* bytes 6-7; for n = 65535 or 65536 it ended in the oversize failure and
\* returned nothing; and every sequence it returned has in bytes 6-7 the
\* number of bytes that follow the 8-byte fixed region.
C6_OversizeBoundary ==
    op = "Bytes" =>
        LET n == Len(MarshalPtr(pre.sb.Extra))
        IN  /\ n = 256 * 256 - 2 =>
                    /\ ~res.fatal
                    /\ BytesToUint16(SubSeq(res.head, 7, 8)) = 256 * 256 - 2
            /\ n \in {256 * 256 - 1, 256 * 256} => (res.fatal /\ res.len = 0)
            /\ ~res.fatal =>
                    /\ BytesToUint16(SubSeq(res.head, 7, 8)) = res.len - SuperBlockSize
                    /\ res.len - SuperBlockSize = n

\* C6's case: Bytes() returned the encoding of an extension of exactly 65534
\* bytes.
C6_Witness ==
    /\ op = "Bytes"
    /\ Len(MarshalPtr(pre.sb.Extra)) = 256 * 256 - 2
    /\ ~res.fatal
    /\ res.len = 256 * 256 + 6

\* C7: invalid replica placement.  Whenever readSuperBlock read, without I/O
\* error, a file whose byte 1 is no recognized placement, it returned an
\* error, and the SuperBlock it returned and left in the volume carries
\* nothing of the file: the volume's SuperBlock is as before.
C7_InvalidReplicaPlacement ==
    (ReadWithoutIOError /\ Len(pre.disk) >= 2 /\ ~ValidRPByte(pre.disk[2])) =>
        /\ res.err # "nil"
        /\ SuperBlock = pre.sb

\* C8: cached length never stale.  Whenever Bytes() returned, extraSize is
\* the number of extension bytes it appended and the value it wrote into
\* bytes 6-7; with Extra cleared, BlockSize() is 8.
C8_CachedLengthNeverStale ==
    (op = "Bytes" /\ ~res.fatal) =>
        /\ SuperBlock.extraSize = res.len - SuperBlockSize
        /\ SuperBlock.extraSize = BytesToUint16(SubSeq(res.head, 7, 8))
        /\ SuperBlock.Extra = Nil => BlockSize(SuperBlock) = SuperBlockSize

\* C9: bounded, gated retry.  Whenever maybeWriteSuperBlock ran: at most two
\* writes and one recreate; a recreate only after the first write on an empty
\* file failed with permission-denied; a failed size query is returned with
\* no write and no recreate; a first write failing otherwise is returned with
\* no recreate and no second write; and the call ended either written (no
\* error, the encoded header in the file) or failed (an error, no header
\* written).
C9_BoundedGatedRetry ==
    op = "maybeWriteSuperBlock" =>
        /\ res.writes <= 2
        /\ res.creates <= 1
        /\ res.creates = 1 =>
                (res.stat = "nil" /\ Len(pre.disk) = 0 /\ res.first = "EACCES")
        /\ res.writes = 2 => res.creates = 1
        /\ res.stat # "nil" =>
                (res.err = res.stat /\ res.writes = 0 /\ res.creates = 0)
        /\ (res.stat = "nil" /\ Len(pre.disk) = 0 /\ res.first \notin {"nil", "EACCES"}) =>
                (res.err = res.first /\ res.writes = 1 /\ res.creates = 0)
        /\ res.err = "nil" => Len(disk) > 0
        /\ Len(pre.disk) = 0 =>
                (res.err = "nil" <=>
                    /\ res.len >= SuperBlockSize
                    /\ Len(disk) = res.len
                    /\ FixedRegion(disk) = res.head)

\* C9's case: the first write failed with permission-denied, the file was
\* recreated, and the second write failed.
C9_Witness ==
    /\ op = "maybeWriteSuperBlock"
    /\ res.writes = 2
    /\ res.creates = 1
    /\ res.second = "EIO"
    /\ res.err = "EIO"

\* C10: the file handle stays usable.  Whenever maybeWriteSuperBlock
\* returned, v.dataFile is an open handle, not nil.
C10_FileHandleUsable ==
    op = "maybeWriteSuperBlock" => dataFile # "nil"

====
